---- MODULE Spec2Model ----
(***************************************************************************)
(* The Athena memory bridge of openclaw_codebase.                           *)
(*                                                                         *)
(*   AthenaClient (src/MAPPING.md:615-759): one session object with the     *)
(*   fields client, transport and connected, and the async methods         *)
(*   connect, callTool and disconnect.                                      *)
(*   memory-athena plugin (src/unnamed/part_001:269-555): five tool         *)
(*   actions that connect lazily and call one remote tool, and the two      *)
(*   lifecycle handlers before_agent_start and agent_end.                   *)
(*                                                                         *)
(* JavaScript runs one synchronous segment at a time and switches between   *)
(* callers only at an await.  The variable running names the caller that    *)
(* is inside a synchronous segment, or "none"; another caller takes a step  *)
(* only when it is "none".  Every method of AthenaClient is async and every *)
(* caller awaits it, so a method gives up control when it reaches its own   *)
(* await and again when it returns or throws.  The one exception is the     *)
(* return of callTool after its await, which touches nothing of the session *)
(* and is taken together with the caller's next segment.                    *)
(*                                                                         *)
(* Spec is the bridge at work.  SpecConfig runs the configuration schema    *)
(* (src/openclaw/extensions/memory-athena/config.ts) and register() on      *)
(* every settings value of a family, SpecAnalyzer runs extractKeyFacts on   *)
(* every history of a family.                                               *)
(***************************************************************************)
EXTENDS Integers, FiniteSets, Sequences, TLC

\* ------------------------------------------------------------------ bounds
\* Content blocks in a reply whose conversion is followed block by block.
MaxReplyBlocks == 3
\* Channels (subprocesses, HTTP streams) the session may open in one run.
MaxChannels == 3
\* Content blocks in one reply of the peer.
MaxBlocks == 1
\* Candidates in one smart_search reply.
MaxCands == 2
\* Entries in event.messages of one agent_end event.
MaxMsgs == 2
\* Longest prompt of a before_agent_start event, in characters.
MaxPromptLen == 11

\* ------------------------------------------------- constants of the plugin
\* if (userPrompt.length > 10)
RecallMinLength == 10
\* r.rrf_score > 0.01, with scores counted in thousandths
RelevanceThreshold == 10
\* return userMessageCount >= 2
MinUserMessages == 2

\* ------------------------------------------------------------ the callers
\* The host's event dispatch runs the two lifecycle handlers one at a time
\* (caller Hook) and the agent runs one tool action at a time (caller Tool);
\* a tool action and a handler may be in progress together.
Hook == "hook"
Tool == "tool"
ToolTasks == {Tool}
TaskIds == {Hook} \cup ToolTasks
Handles == 1..MaxChannels

VARIABLES
  client,     \* this.client: 0 for null, else the handle the Client wraps
  transport,  \* this.transport: 0 for null, else the handle
  connected,  \* this.connected
  chan,       \* the channel behind each handle
  nextId,     \* handles created so far
  running,    \* the caller inside a synchronous segment, "none" when none is
  turn,       \* "idle" | "active": whether an agent turn is in progress
  hist,       \* which calls the session has seen: "fresh" until the first
              \* connect(); "disc1"/"disc2" while a disconnect() awaits its
              \* close (the second of two in succession is "disc2"); "disc"
              \* when a disconnect() was the last thing to act on the
              \* session; "other" otherwise
  task,       \* per caller: position, method in progress, last outcome,
              \* the event it handles and what it has done for it so far
  reg,        \* one run of the configuration schema or of register(): the
              \* settings handed in and how far the run has come
  ana,        \* one run of the analyzer: the history handed in and the result
  conv        \* one reply of the peer on its way through callTool and
              \* execute(): the reply and what was made of it

vars == <<client, transport, connected, chan, nextId, running, turn, hist, task,
          reg, ana, conv>>
session == <<client, transport, connected, chan, nextId>>
\* The runs of the pure parts, which the bridge at work leaves alone.
pure == <<reg, ana, conv>>
NoRegistration == [stage |-> "none"]
NoAnalysis == [stage |-> "none"]
NoConversion == [stage |-> "none"]

\* A channel is "none" before its handle exists, "open" once the subprocess
\* or the stream exists and the handshake is pending, "ready" after the
\* handshake, "dead" when creating it failed (nothing was spawned or opened)
\* or when it was closed.
Live == {"open", "ready"}
LiveHandles == {h \in Handles : chan[h] \in Live}

\* ------------------------------------------------------- method outcomes
\* What a method handed back to its caller: k is the way it ended, the other
\* fields describe an AthenaToolResult (isError, content.length, what
\* content[0].text holds, the rrf_score of each candidate when that text is
\* a smart_search result) and whether it was built from a caught fault.
Outcome(kind) ==
  [k |-> kind, err |-> FALSE, n |-> 0, pay |-> "-", cand |-> <<>>, src |-> "-"]
NoOutcome == Outcome("none")

\* rrf_score values in thousandths: the threshold 0.01, 0.011, 0.25 and 0.5.
ScoreValues == {RelevanceThreshold, RelevanceThreshold + 1, 250, 500}

RECURSIVE SeqsUpTo(_, _)
SeqsUpTo(S, n) ==
  IF n = 0 THEN {<<>>}
  ELSE LET shorter == SeqsUpTo(S, n - 1)
       IN  shorter \cup {Append(q, x) : q \in shorter, x \in S}

\* parsed.results.results of a smart_search reply, by the scores it carries.
CandidateLists == SeqsUpTo(ScoreValues, MaxCands)

\* content[0].text of a smart_search reply, by what the turn-start handler
\* can do with it: not JSON; JSON whose traversal throws (null, results that
\* is no array, a null candidate); JSON with a list of candidates, which may
\* be empty.  No other caller looks into the text of a reply: there it is
\* "text".
Payloads(tool) ==
  IF tool = "smart_search"
    THEN {[pay |-> p, cand |-> <<>>] : p \in {"nonjson", "malformed"}} \cup
         {[pay |-> "json", cand |-> c] : c \in CandidateLists}
    ELSE {[pay |-> "text", cand |-> <<>>]}

\* The replies the peer can give to a call that reaches it: an error flag
\* or none, and content blocks, the first holding the payload.
PeerReplies(tool) ==
  {[err |-> e, n |-> 0, pay |-> "-", cand |-> <<>>] : e \in BOOLEAN} \cup
  {[err |-> e, n |-> k, pay |-> p.pay, cand |-> p.cand] :
      e \in BOOLEAN, k \in 1..MaxBlocks, p \in Payloads(tool)}

\* A callTool whose catch block let the fault go on to the caller.
FaultRaised ==
  [k |-> "raised", err |-> TRUE, n |-> 0, pay |-> "-", cand |-> <<>>, src |-> "fault"]
\* callTool's catch block: one text block "Error: ...", isError true.
FaultResult ==
  [k |-> "result", err |-> TRUE, n |-> 1, pay |-> "nonjson", cand |-> <<>>, src |-> "fault"]

\* callTool's conversion of a reply: every block becomes one text block.
NormalizeReply(rep) ==
  [k |-> "result", err |-> rep.err, n |-> rep.n, pay |-> rep.pay,
   cand |-> rep.cand, src |-> "reply"]

\* What awaiting this.client.callTool(...) can end with, given the channel
\* the call went out on: a thrown fault always; a reply only from a peer
\* that finished the handshake and is still there.
CallOutcomes(st, tool) ==
  {FaultResult} \cup
  (IF st = "ready" THEN {NormalizeReply(rep) : rep \in PeerReplies(tool)} ELSE {})

\* ------------------------------------------------------------------- Init
\* pc, m, h, r and out are the caller's position, the method it is in, the
\* handle that method works on, the last outcome and what the handler gave
\* the host; inj holds the lines of a prependContext.  ev names the event, arg the way the handler takes for it and
\* len the length of the prompt; evt holds the agent_end event while the
\* handler's first segment looks at it, and due tells whether that event is
\* a successful turn with 2 or more user messages.  conns, calls and discs
\* count the handler's calls of connect, callTool and disconnect, sent the
\* requests that went out to the peer, opened the channels it opened, and
\* base is the number of handles that existed when the handler began.
NoArgs == [summary |-> <<>>, null |-> TRUE, bullets |-> <<>>]
NoEvent ==
  [success |-> FALSE, nomsgs |-> FALSE, users |-> 0, enough |-> FALSE,
   facts |-> 0, summary |-> "-", bullets |-> "-", args |-> NoArgs]

IdleTask ==
  [pc |-> "idle", m |-> "none", h |-> 0, r |-> NoOutcome, out |-> "none",
   inj |-> <<>>, ev |-> "none", arg |-> "-", len |-> 0, evt |-> NoEvent,
   due |-> FALSE,
   conns |-> 0, calls |-> 0, discs |-> 0, sent |-> 0, opened |-> 0, base |-> 0]

Init ==
  /\ client = 0
  /\ transport = 0
  /\ connected = FALSE
  /\ chan = [h \in Handles |-> "none"]
  /\ nextId = 0
  /\ running = "none"
  /\ turn = "idle"
  /\ hist = "fresh"
  /\ task = [t \in TaskIds |-> IdleTask]
  /\ reg = NoRegistration
  /\ ana = NoAnalysis
  /\ conv = NoConversion

\* ------------------------------------------------------- AthenaClient
isConnected == connected

\* A connect() that does not test the flag.
AlreadyConnectedNever == FALSE
\* connect(): if (this.connected) return;
AlreadyConnected == connected

\* A guard that tests the Client alone.
NotConnectedNoFlag == client = 0
\* callTool(): if (!this.client || !this.connected) throw ...
NotConnected == client = 0 \/ ~connected

\* A caller may step when no other caller is inside a synchronous segment.
CanRun(t) == running \in {"none", t}

\* A connect that would open a channel needs a handle left in this run.
CanConnect == connected \/ nextId < MaxChannels

\* connect() up to its await: returns at once when connected; otherwise
\* connectStdio/connectSSE build a transport and a Client around it, store
\* both in the session and start client.connect(transport), which spawns the
\* subprocess or opens the stream (or fails to).
connect_entry(t) ==
  /\ CanRun(t)
  /\ task[t].m = "connect"
  /\ IF AlreadyConnected
       THEN /\ task' = [task EXCEPT ![t].m = "ret", ![t].r = Outcome("noop")]
            /\ UNCHANGED session
       ELSE /\ nextId < MaxChannels
            /\ \E st \in {"open", "dead"} :
                 /\ chan' = [chan EXCEPT ![nextId + 1] = st]
                 /\ task' = [task EXCEPT ![t].m = "connWait", ![t].h = nextId + 1,
                               ![t].opened = @ + (IF st = "open" THEN 1 ELSE 0)]
            /\ nextId' = nextId + 1
            /\ transport' = nextId + 1
            /\ client' = nextId + 1
            /\ UNCHANGED connected
  /\ running' = "none"
  /\ hist' = "other"
  /\ UNCHANGED turn
  /\ UNCHANGED pure

\* connect() after its await: the handshake on this call's own transport
\* succeeded (connected = true) or the attempt failed (catch: connected =
\* false, throw).  The catch block clears neither this.client nor
\* this.transport and closes nothing; whether the library tore the channel
\* down when the handshake failed is not decided by this repository.
connect_resolve(t) ==
  /\ running = "none"
  /\ task[t].m = "connWait"
  /\ LET h == task[t].h IN
     \/ /\ chan[h] = "open"
        /\ chan' = [chan EXCEPT ![h] = "ready"]
        /\ connected' = TRUE
        /\ task' = [task EXCEPT ![t].m = "ret", ![t].r = Outcome("connected")]
     \/ /\ \E torn \in BOOLEAN :
             chan' = IF torn /\ chan[h] = "open"
                       THEN [chan EXCEPT ![h] = "dead"] ELSE chan
        /\ connected' = FALSE
        /\ task' = [task EXCEPT ![t].m = "ret", ![t].r = Outcome("connErr")]
  /\ hist' = "other"
  /\ UNCHANGED <<client, transport, nextId, running, turn>>
  /\ UNCHANGED pure

\* callTool() up to its await: the guard, then the request goes out on the
\* Client the session holds now.
callTool_entry(t) ==
  /\ CanRun(t)
  /\ task[t].m = "callTool"
  /\ IF NotConnected
       THEN task' = [task EXCEPT ![t].m = "ret", ![t].r = Outcome("notConn")]
       ELSE task' = [task EXCEPT ![t].m = "callWait", ![t].h = client,
                                 ![t].sent = @ + 1]
  /\ running' = "none"
  /\ hist' = IF hist = "fresh" THEN "fresh" ELSE "other"
  /\ UNCHANGED <<session, turn>>
  /\ UNCHANGED pure

\* The remote tool a caller's pending call names: the turn-start handler
\* calls smart_search, the turn-end handler quicksave, a tool action its own.
RemoteTool(t) ==
  IF t = Hook /\ task[t].pc = "ts_call" THEN "smart_search"
  ELSE IF t = Hook THEN "quicksave" ELSE "any"

\* callTool() after its await: the reply converted, or the catch block.
\* Nothing of the session is read or written here, so the step is taken
\* together with the segment of the caller that receives the result.
callTool_resolve(t) ==
  /\ running = "none"
  /\ task[t].m = "callWait"
  /\ \E res \in CallOutcomes(chan[task[t].h], RemoteTool(t)) :
       task' = [task EXCEPT ![t].m = "ret", ![t].r = res]
  /\ running' = t
  /\ UNCHANGED <<session, turn, hist>>
  /\ UNCHANGED pure

\* disconnect() up to its await: with a Client, client.close() is called (the
\* transports close synchronously inside that call, or the close throws);
\* without one the fields are reset at once.
disconnect_entry(t) ==
  /\ CanRun(t)
  /\ task[t].m = "disc"
  /\ IF client # 0
       THEN /\ \E fails \in BOOLEAN :
                 /\ chan' = IF ~fails /\ chan[client] \in Live
                              THEN [chan EXCEPT ![client] = "dead"] ELSE chan
                 /\ task' = [task EXCEPT ![t].m = "discWait",
                               ![t].r = Outcome(IF fails THEN "closeErr" ELSE "closed")]
            /\ hist' = IF hist = "disc" THEN "disc2" ELSE "disc1"
            /\ UNCHANGED <<client, transport, connected, nextId>>
       ELSE /\ transport' = 0
            /\ connected' = FALSE
            /\ task' = [task EXCEPT ![t].m = "ret", ![t].r = Outcome("nothingToClose")]
            /\ hist' = IF hist = "fresh" THEN "fresh" ELSE "disc"
            /\ UNCHANGED <<client, chan, nextId>>
  /\ running' = "none"
  /\ UNCHANGED turn
  /\ UNCHANGED pure

\* disconnect() after its await: a close that threw leaves every field as it
\* was and the exception leaves disconnect(); otherwise the fields are reset.
disconnect_resolve(t) ==
  /\ running = "none"
  /\ task[t].m = "discWait"
  /\ IF task[t].r.k = "closed"
       THEN /\ client' = 0
            /\ transport' = 0
            /\ connected' = FALSE
       ELSE UNCHANGED <<client, transport, connected>>
  /\ task' = [task EXCEPT ![t].m = "ret"]
  /\ hist' = IF hist \in {"disc1", "disc2"} THEN "disc" ELSE "other"
  /\ UNCHANGED <<chan, nextId, running, turn>>
  /\ UNCHANGED pure

\* ------------------------------------------------- the five tool actions
\* A caller reaches the end of a handler with what it hands to the host.
Finish(t, o) ==
  [task[t] EXCEPT !.pc = "done", !.m = "none", !.h = 0, !.out = o]

\* A caller calls a method of the session from position at.
Invoke(t, at, method) ==
  [task[t] EXCEPT !.pc = at, !.m = method,
                  !.conns = @ + (IF method = "connect" THEN 1 ELSE 0),
                  !.calls = @ + (IF method = "callTool" THEN 1 ELSE 0),
                  !.discs = @ + (IF method = "disc" THEN 1 ELSE 0)]

\* execute() of search, save, recall_session, list_paths and health, which
\* differ only in the remote tool they name:
\*   if (!athenaClient?.isConnected()) { await athenaClient?.connect(); }
\*   const result = await athenaClient!.callTool(...);
tool_execute(t) ==
  /\ running = "none"
  /\ task[t].pc = "idle"
  /\ IF isConnected
       THEN task' = [task EXCEPT ![t] =
                       [Invoke(t, "call", "callTool") EXCEPT
                          !.out = "none", !.r = NoOutcome]]
       ELSE /\ CanConnect
            /\ task' = [task EXCEPT ![t] =
                          [Invoke(t, "conn", "connect") EXCEPT
                             !.out = "none", !.r = NoOutcome]]
  /\ running' = t
  /\ UNCHANGED <<session, turn, hist>>
  /\ UNCHANGED pure

\* execute() resumed after connect(): a rejected connect leaves execute() as
\* an exception (there is no try around it); otherwise callTool is called.
tool_connected(t) ==
  /\ running = "none"
  /\ task[t].pc = "conn"
  /\ task[t].m = "ret"
  /\ IF task[t].r.k \in {"noop", "connected"}
       THEN task' = [task EXCEPT ![t] = Invoke(t, "call", "callTool")]
       ELSE task' = [task EXCEPT ![t] = Finish(t, "raised")]
  /\ running' = t
  /\ UNCHANGED <<session, turn, hist>>
  /\ UNCHANGED pure

\* What execute() hands to the host once callTool has ended.
ToolReturn(res) ==
  IF res.k = "result" THEN (IF res.err THEN "error" ELSE "ok") ELSE "raised"

\* execute() resumed after callTool(): returns {content, isError, details},
\* or the not-connected error leaves execute() as an exception.
tool_called(t) ==
  /\ CanRun(t)
  /\ task[t].pc = "call"
  /\ task[t].m = "ret"
  /\ task' = [task EXCEPT ![t] = Finish(t, ToolReturn(task[t].r))]
  /\ running' = t
  /\ UNCHANGED <<session, turn, hist>>
  /\ UNCHANGED pure

\* execute() is over: the host has its result or its exception.
tool_return(t) ==
  /\ running = t
  /\ task[t].pc = "done"
  /\ task' = [task EXCEPT ![t] = IdleTask]
  /\ running' = "none"
  /\ UNCHANGED <<session, turn, hist>>
  /\ UNCHANGED pure

\* ------------------------------------------------- before_agent_start
\* event.prompt by its length in characters; -1 stands for no prompt.
PromptLens == -1..MaxPromptLen

\* if (event.prompt && event.prompt.length > 0)
HasPrompt(len) == len > 0

\* A test that lets a prompt of exactly 10 characters through.
LongEnoughInclusive(len) == len >= RecallMinLength
\* if (userPrompt.length > 10)
LongEnough(len) == len > RecallMinLength

\* The handler's first act inside its try is await athenaClient.connect().
before_agent_start ==
  /\ running = "none"
  /\ turn = "idle"
  /\ task[Hook].pc = "idle"
  /\ CanConnect
  /\ task' = [task EXCEPT ![Hook] =
                [Invoke(Hook, "ts_conn", "connect") EXCEPT
                   !.out = "none", !.r = NoOutcome, !.ev = "start"]]
  /\ running' = Hook
  /\ turn' = "active"
  /\ UNCHANGED <<session, hist>>
  /\ UNCHANGED pure

\* After connect(): a rejected connect goes to the catch block (log, no
\* instruction); otherwise event.prompt, of length p, is read for the first
\* time: a short or absent prompt ends the handler, a long one calls
\* smart_search.
start_connected(p) ==
  /\ running = "none"
  /\ task[Hook].pc = "ts_conn"
  /\ task[Hook].m = "ret"
  /\ IF /\ task[Hook].r.k \in {"noop", "connected"}
        /\ HasPrompt(p)
        /\ LongEnough(p)
       THEN task' = [task EXCEPT ![Hook] =
                       [Invoke(Hook, "ts_call", "callTool") EXCEPT !.len = p]]
       ELSE task' = [task EXCEPT ![Hook] =
                       [Finish(Hook, "nothing") EXCEPT !.len = p]]
  /\ running' = Hook
  /\ UNCHANGED <<session, turn, hist>>
  /\ UNCHANGED pure

\* A filter that keeps a candidate whose score is exactly 0.01.
meaningfulResultsInclusive(cand) ==
  SelectSeq(cand, LAMBDA sc : sc >= RelevanceThreshold)
\* results.filter((r) => r.rrf_score > 0.01)
meaningfulResults(cand) ==
  SelectSeq(cand, LAMBDA sc : sc > RelevanceThreshold)

\* A handler that does not test isError before it parses.
RecallInstructionTrusting(res) ==
  IF /\ res.k = "result" /\ res.n > 0 /\ res.pay = "json"
     /\ Len(meaningfulResults(res.cand)) > 0
    THEN "prepend" ELSE "nothing"
\* What the handler returns for the outcome of the search call.  A callTool
\* that threw, JSON.parse that threw and a traversal that threw all end in
\* the catch block; an error flag, no content, no candidates or none above
\* 0.01 fall through; only a candidate above 0.01 yields prependContext.
RecallInstruction(res) ==
  IF /\ res.k = "result" /\ ~res.err /\ res.n > 0 /\ res.pay = "json"
     /\ Len(meaningfulResults(res.cand)) > 0
    THEN "prepend" ELSE "nothing"

\* A percentage that takes the score for hundredths.
FormatPercentHundredths(sc) == [whole |-> sc, tenth |-> 0]
\* (r.rrf_score * 100).toFixed(1) for a score of sc thousandths: the whole
\* percents and the one decimal, 250 giving 25.0 and 11 giving 1.1.
FormatPercent(sc) == [whole |-> sc \div 10, tenth |-> sc % 10]

\* parseSearchResults: the text is parsed again and EVERY entry of
\* parsed.results.results becomes one line "[<percent>%] <id>: <content>";
\* at names the entry a line was made from.
parseSearchResults(cand) ==
  [i \in DOMAIN cand |-> [at |-> i, pct |-> FormatPercent(cand[i])]]

\* const formattedResults = parseSearchResults(resultText): the lines joined
\* into prependContext when an instruction is returned.
formattedResults(res) ==
  IF RecallInstruction(res) = "prepend" THEN parseSearchResults(res.cand) ELSE <<>>

start_searched ==
  /\ CanRun(Hook)
  /\ task[Hook].pc = "ts_call"
  /\ task[Hook].m = "ret"
  /\ task' = [task EXCEPT ![Hook] =
                [Finish(Hook, RecallInstruction(task[Hook].r)) EXCEPT
                   !.inj = formattedResults(task[Hook].r)]]
  /\ running' = Hook
  /\ UNCHANGED <<session, turn, hist>>
  /\ UNCHANGED pure

\* ---------------------------------------------------------- agent_end
\* The six importantPatterns in their order: phone numbers, emails, personal
\* info, preferences, reminders, decisions.
importantPatterns ==
  <<"phone", "email", "personal", "preference", "reminder", "decision">>

\* A text is a sequence of pieces.  A piece is a run of len characters with
\* wording word, the last tail of them white space: a substring that matches
\* a pattern (cat names the pattern), text in which nothing matches
\* ("plain"), or white space ("space").  Two pieces of one wording start
\* with the same characters.  The empty sequence is the empty string.
Piece(c, w, n, t) == [cat |-> c, word |-> w, len |-> n, tail |-> t]
\* A match of pattern c; the last three patterns end in \s+.
Tok(c, w) ==
  Piece(c, w, 9, IF c \in {"preference", "reminder", "decision"} THEN 1 ELSE 0)
Plain(w, n) == Piece("plain", w, n, 0)
Space(n) == Piece("space", " ", n, n)

\* msg.content: a string, an array of blocks, or something else.  A block is
\* an object with a text, null, a value that is no object, or an object
\* without a text.
StringContent(text) == [t |-> "string", text |-> text, blocks |-> <<>>]
ArrayContent(blocks) == [t |-> "array", text |-> <<>>, blocks |-> blocks]
NoContent == [t |-> "undefined", text |-> <<>>, blocks |-> <<>>]
TextBlock(text) == [t |-> "text", text |-> text]
NullBlock == [t |-> "null", text |-> <<>>]
NumberBlock == [t |-> "number", text |-> <<>>]
ImageBlock == [t |-> "image", text |-> <<>>]

\* An entry of event.messages; role "-" is an entry that is no object (null,
\* a string).
Msg(role, content) == [role |-> role, content |-> content]
NonObject == Msg("-", NoContent)

\* "My name is Sam" and "Remember to call Sam": the first two words match
\* the personal-info pattern, "Remember " the reminder pattern.
MyNameIsSam == <<Piece("personal", "My name", 7, 0), Plain(" is Sam", 7)>>
RememberToCallSam ==
  <<Piece("reminder", "Remember ", 9, 1), Plain("to call Sam", 11)>>

\* The entries the turn-end handler is given: no text, the two sentences,
\* an array that holds a null block.
Messages ==
  {NonObject} \cup
  {Msg("assistant", c) : c \in {StringContent(<<>>), ArrayContent(<<NullBlock>>)}} \cup
  {Msg("user", c) : c \in {StringContent(<<>>),
                           StringContent(MyNameIsSam),
                           StringContent(RememberToCallSam),
                           ArrayContent(<<NullBlock>>)}}

Histories == SeqsUpTo(Messages, MaxMsgs)

\* The agent_end events: success, whether messages is there, and the list.
EndEvents ==
  {[success |-> ok, present |-> TRUE, messages |-> ms] :
      ok \in BOOLEAN, ms \in Histories} \cup
  {[success |-> ok, present |-> FALSE, messages |-> <<>>] : ok \in BOOLEAN}

\* The loop of hasEnoughExchanges: entries that are no object are skipped,
\* an entry whose role is "user" is counted.
RECURSIVE userMessageCount(_)
userMessageCount(ms) ==
  IF ms = <<>> THEN 0
  ELSE (IF Head(ms).role # "-" /\ Head(ms).role = "user" THEN 1 ELSE 0)
         + userMessageCount(Tail(ms))

\* A threshold of one user message.
hasEnoughExchangesOne(ms) == userMessageCount(ms) >= 1
\* return userMessageCount >= 2;
hasEnoughExchanges(ms) == userMessageCount(ms) >= MinUserMessages

\* A loop that takes every entry that is an object.
IsObjectMessage(msg) == msg.role # "-"
\* if (!msg || typeof msg !== "object") continue;
\* if (msgObj.role !== "user") continue;
IsUserMessage(msg) == msg.role # "-" /\ msg.role = "user"

HasNullBlock(content) ==
  content.t = "array" /\ \E i \in DOMAIN content.blocks : content.blocks[i].t = "null"

\* generateSummary and extractKeyFacts walk the blocks of every user
\* message with  typeof block === "object" && "text" in block ; typeof null
\* is "object" and  "text" in null  throws a TypeError.
AnalyzerThrows(ms) ==
  \E i \in DOMAIN ms : IsUserMessage(ms[i]) /\ HasNullBlock(ms[i].content)

\* for (const block of content): the text of every block that is an object
\* with a text is appended, followed by sep; the other blocks are passed
\* over.
RECURSIVE JoinBlocks(_, _)
JoinBlocks(blocks, sep) ==
  IF blocks = <<>> THEN <<>>
  ELSE (IF Head(blocks).t = "text" THEN Head(blocks).text \o sep ELSE <<>>)
         \o JoinBlocks(Tail(blocks), sep)

\* extractKeyFacts, let text = "" ... : the string, or the blocks joined
\* with a blank after each (text += block.text + " "), or nothing.
TextOf(content) ==
  IF content.t = "string" THEN content.text
  ELSE IF content.t = "array" THEN JoinBlocks(content.blocks, <<Space(1)>>)
  ELSE <<>>

\* Patterns that match nothing.
matchNone(text, pattern) == <<>>
\* text.match(pattern): the patterns carry no g flag, so the result is the
\* first match alone, or null (here the empty sequence).
match(text, pattern) ==
  LET hits == SelectSeq(text, LAMBDA tk : tk.cat = pattern)
  IN  IF hits = <<>> THEN <<>> ELSE <<Head(hits)>>

\* for (const pattern of importantPatterns) { ... facts.push(match[0]) } for
\* message m: one entry per pattern that matches, in the patterns' order.
MatchesOf(text, m) ==
  LET tried == [c \in 1..Len(importantPatterns) |->
                  [msg |-> m, cat |-> c, hit |-> match(text, importantPatterns[c])]]
      found == SelectSeq(tried, LAMBDA p : p.hit # <<>>)
  IN  [i \in 1..Len(found) |->
         [msg |-> found[i].msg, cat |-> found[i].cat, fact |-> found[i].hit[1]]]

\* The array facts after the loop over the messages from entry m on, each
\* entry with the message and the pattern it came from.
RECURSIVE pushed(_, _)
pushed(ms, m) ==
  IF m > Len(ms) THEN <<>>
  ELSE (IF IsUserMessage(ms[m]) THEN MatchesOf(TextOf(ms[m].content), m) ELSE <<>>)
         \o pushed(ms, m + 1)

\* A result that keeps every entry of facts.
KeepDuplicates(q) == q
\* [...new Set(facts)]: the first occurrence of each value, in order.
RECURSIVE Unique(_)
Unique(q) ==
  IF q = <<>> THEN <<>>
  ELSE LET front == Unique(SubSeq(q, 1, Len(q) - 1))
           last  == q[Len(q)]
       IN  IF \E i \in DOMAIN front : front[i] = last THEN front
           ELSE Append(front, last)

\* .slice(0, 5)
MaxFacts == 5
slice(q, n) == SubSeq(q, 1, IF Len(q) < n THEN Len(q) ELSE n)

\* extractKeyFacts: the matched substrings of the user messages, without
\* duplicates, the first five; or the TypeError of a null block.
extractKeyFacts(ms) ==
  IF AnalyzerThrows(ms) THEN [ok |-> FALSE, facts |-> <<>>]
  ELSE LET all == pushed(ms, 1)
       IN  [ok |-> TRUE,
            facts |-> slice(Unique([i \in 1..Len(all) |-> all[i].fact]), MaxFacts)]

\* String.prototype.trim: white space at both ends goes.
RECURSIVE trimStart(_)
trimStart(text) ==
  IF text = <<>> THEN <<>>
  ELSE IF Head(text).cat = "space" THEN trimStart(Tail(text))
  ELSE text
RECURSIVE trimEnd(_)
trimEnd(text) ==
  IF text = <<>> THEN <<>>
  ELSE LET front == SubSeq(text, 1, Len(text) - 1)
           last  == text[Len(text)]
       IN  IF last.tail = last.len THEN trimEnd(front)
           ELSE IF last.tail > 0
             THEN Append(front, [last EXCEPT !.len = @ - last.tail, !.tail = 0])
           ELSE text
trim(text) == trimEnd(trimStart(text))

\* text.slice(0, n): the first n characters, the piece that crosses the
\* limit cut there.
RECURSIVE sliceText(_, _)
sliceText(text, n) ==
  IF text = <<>> \/ n = 0 THEN <<>>
  ELSE LET p == Head(text) IN
       IF p.len <= n THEN <<p>> \o sliceText(Tail(text), n - p.len)
       ELSE <<[p EXCEPT !.len = n,
                        !.tail = IF p.tail > p.len - n THEN p.tail - (p.len - n) ELSE 0]>>

\* text.slice(0, 80)
SummaryPartLength == 80

\* generateSummary, let text = "" ... : the string trimmed, or the texts of
\* the blocks joined and trimmed, or nothing.
SummaryTextOf(content) ==
  IF content.t = "string" THEN trim(content.text)
  ELSE IF content.t = "array" THEN trim(JoinBlocks(content.blocks, <<>>))
  ELSE <<>>

\* The texts the loop of generateSummary keeps: of every user message with
\* text, the first 80 characters.
SummaryParts(ms) ==
  LET users == SelectSeq(ms, IsUserMessage)
      texts == [i \in 1..Len(users) |-> SummaryTextOf(users[i].content)]
      kept  == SelectSeq(texts, LAMBDA x : x # <<>>)
  IN  [i \in 1..Len(kept) |-> sliceText(kept[i], SummaryPartLength)]

\* "Conversation with user" and the arrow of `${firstUserMsg} -> ${lastUserMsg}`
FallbackSummary == <<Plain("Conversation with user", 22)>>
Arrow == <<Plain(" -> ", 3)>>

\* A summary that always joins the first part and the last.
JoinAlways(first, last) == first \o Arrow \o last
\* if (firstUserMsg === lastUserMsg) return firstUserMsg;
\* return `${firstUserMsg} -> ${lastUserMsg}`;
JoinParts(first, last) ==
  IF first = last THEN first ELSE first \o Arrow \o last

\* generateSummary: the fallback, the one part, or the first part and the
\* last around the arrow; or the TypeError of a null block.
generateSummary(ms) ==
  IF AnalyzerThrows(ms) THEN [ok |-> FALSE, text |-> <<>>]
  ELSE LET parts == SummaryParts(ms)
       IN  [ok |-> TRUE,
            text |-> IF parts = <<>> THEN FallbackSummary
                     ELSE JoinParts(parts[1], parts[Len(parts)])]

\* bullets: facts.length > 0 ? facts : null
Bullets(facts) == IF Len(facts) > 0 THEN "facts" ELSE "null"

\* A handler that saves whatever the outcome of the turn was.
SkipUnsuccessfulNever(e) == FALSE
\* if (!event.success || !event.messages || event.messages.length === 0)
SkipUnsuccessful(e) == ~e.success \/ ~e.present \/ Len(e.messages) = 0

\* The way the handler takes through its try block for an event: the two
\* early returns, an exception out of the analyzer, or the save.
Ends == {"failed", "few", "throws", "enough"}

EndClass(e) ==
  IF SkipUnsuccessful(e) THEN "failed"
  ELSE IF ~hasEnoughExchanges(e.messages) THEN "few"
  ELSE IF AnalyzerThrows(e.messages) THEN "throws"
  ELSE "enough"

SkipCapture(c) == c \in {"failed", "few"}

\* Where the handler first calls the session, and with which method: the
\* early returns and the catch block call disconnect(), the save callTool.
EndStep(c) ==
  IF SkipCapture(c) THEN <<"te_disc", "disc">>
  ELSE IF c = "throws" THEN <<"te_catch", "disc">>
  ELSE <<"te_save", "callTool">>

\* The messages of an event with role "user", counted one by one.
UserMessages(e) == {i \in DOMAIN e.messages : e.messages[i].role = "user"}

\* callTool("quicksave", {summary, bullets: facts.length > 0 ? facts : null})
QuicksaveArgs(ms) ==
  LET facts == extractKeyFacts(ms).facts
  IN  [summary |-> generateSummary(ms).text,
       null    |-> Len(facts) = 0,
       bullets |-> facts]

\* What the handler's first segment makes of an event: the tests it applies
\* and, on the way to the save, the arguments of the quicksave call.
Observed(e) ==
  [success |-> e.success,
   nomsgs  |-> ~e.present \/ Len(e.messages) = 0,
   users   |-> Cardinality(UserMessages(e)),
   enough  |-> e.present /\ hasEnoughExchanges(e.messages),
   facts   |-> Len(extractKeyFacts(e.messages).facts),
   summary |-> IF EndClass(e) = "enough" THEN "generateSummary" ELSE "-",
   bullets |-> IF EndClass(e) = "enough"
                 THEN Bullets(extractKeyFacts(e.messages).facts) ELSE "-",
   args    |-> IF EndClass(e) = "enough" THEN QuicksaveArgs(e.messages) ELSE NoArgs]

\* Every agent_end event as the handler meets it: the way it takes and what
\* its first segment makes of the event.
EndDigests ==
  {[way |-> EndClass(e), evt |-> Observed(e),
    due |-> e.success /\ Cardinality(UserMessages(e)) >= 2] : e \in EndEvents}

\* The host fires agent_end whenever a run ends; the handler does not ask
\* whether before_agent_start ran for it.  d is the digest of the event.
agent_end(d) ==
  /\ running = "none"
  /\ task[Hook].pc = "idle"
  /\ task' = [task EXCEPT ![Hook] =
                [task[Hook] EXCEPT
                   !.pc = "te_begin", !.out = "none", !.r = NoOutcome,
                   !.ev = "end", !.arg = d.way, !.evt = d.evt, !.due = d.due,
                   !.base = nextId]]
  /\ running' = Hook
  /\ UNCHANGED <<session, turn, hist>>
  /\ UNCHANGED pure

\* The handler's first segment ends at its first await: disconnect() on an
\* early return or in the catch block, callTool("quicksave", ...) otherwise.
end_begin ==
  /\ running = Hook
  /\ task[Hook].pc = "te_begin"
  /\ LET c == task[Hook].arg IN
     task' = [task EXCEPT ![Hook] =
                [Invoke(Hook, EndStep(c)[1], EndStep(c)[2]) EXCEPT
                   !.evt = NoEvent]]
  /\ UNCHANGED <<session, running, turn, hist>>
  /\ UNCHANGED pure

\* After the quicksave call: its result is logged and disconnect() follows;
\* a callTool that threw goes to the catch block, which disconnects too.
end_saved ==
  /\ CanRun(Hook)
  /\ task[Hook].pc = "te_save"
  /\ task[Hook].m = "ret"
  /\ task' = [task EXCEPT ![Hook] =
                Invoke(Hook, IF task[Hook].r.k = "result" THEN "te_disc" ELSE "te_catch",
                       "disc")]
  /\ running' = Hook
  /\ UNCHANGED <<session, turn, hist>>
  /\ UNCHANGED pure

\* After a disconnect() inside the try: done, or the catch block's
\*   try { await athenaClient.disconnect(); } catch { /* ignore */ }
end_disconnected ==
  /\ running = "none"
  /\ task[Hook].pc = "te_disc"
  /\ task[Hook].m = "ret"
  /\ IF task[Hook].r.k = "closeErr"
       THEN task' = [task EXCEPT ![Hook] = Invoke(Hook, "te_catch", "disc")]
       ELSE task' = [task EXCEPT ![Hook] = Finish(Hook, "completed")]
  /\ running' = Hook
  /\ UNCHANGED <<session, turn, hist>>
  /\ UNCHANGED pure

\* A catch block whose disconnect() has no try of its own.
AfterCatchUnguarded(res) == IF res.k = "closeErr" THEN "raised" ELSE "completed"
\* try { await athenaClient.disconnect(); } catch { /* ignore */ }
AfterCatch(res) == "completed"

\* After the catch block's disconnect(): whatever it did, the handler ends.
end_caught ==
  /\ running = "none"
  /\ task[Hook].pc = "te_catch"
  /\ task[Hook].m = "ret"
  /\ task' = [task EXCEPT ![Hook] = Finish(Hook, AfterCatch(task[Hook].r))]
  /\ running' = Hook
  /\ UNCHANGED <<session, turn, hist>>
  /\ UNCHANGED pure

\* A handler is over: the host has what it returned.  The turn is in
\* progress from the turn-start event until a turn-end handler is over.
hook_return ==
  /\ running = Hook
  /\ task[Hook].pc = "done"
  /\ turn' = IF task[Hook].ev = "end" THEN "idle" ELSE turn
  /\ task' = [task EXCEPT ![Hook] = IdleTask]
  /\ running' = "none"
  /\ UNCHANGED <<session, hist>>
  /\ UNCHANGED pure

\* ------------------------------------------------------------------- Next
Next ==
  \/ \E t \in TaskIds : connect_entry(t)
  \/ \E t \in TaskIds : connect_resolve(t)
  \/ \E t \in TaskIds : callTool_entry(t)
  \/ \E t \in TaskIds : callTool_resolve(t)
  \/ \E t \in TaskIds : disconnect_entry(t)
  \/ \E t \in TaskIds : disconnect_resolve(t)
  \/ \E t \in ToolTasks : tool_execute(t)
  \/ \E t \in ToolTasks : tool_connected(t)
  \/ \E t \in ToolTasks : tool_called(t)
  \/ \E t \in ToolTasks : tool_return(t)
  \/ before_agent_start
  \/ \E p \in PromptLens : start_connected(p)
  \/ start_searched
  \/ \E d \in EndDigests : agent_end(d)
  \/ end_begin
  \/ end_saved
  \/ end_disconnected
  \/ end_caught
  \/ hook_return

Spec == Init /\ [][Next]_vars

\* ============================================= configuration and register()
\* The state of the bridge at work, which parsing and registration leave
\* alone.
bridge == <<client, transport, connected, chan, nextId, running, turn, hist, task>>

\* A value of the settings: t is what typeof gives ("absent" for a key that
\* is not there), b the boolean, s the string.  A string is a sequence of
\* parts, each a piece of literal text or one occurrence of ${name}.
Absent == [t |-> "absent", b |-> FALSE, s |-> <<>>]
Bool(x) == [t |-> "boolean", b |-> x, s |-> <<>>]
Num == [t |-> "number", b |-> FALSE, s |-> <<>>]
Str(parts) == [t |-> "string", b |-> FALSE, s |-> parts]
Lit(x) == [ref |-> FALSE, name |-> x]
Ref(n) == [ref |-> TRUE, name |-> n]

\* process.env: ATHENA_HOME is set, ATHENA_PORT is not.
Undefined == "undefined"
process_env(n) == IF n = "ATHENA_HOME" THEN "/srv/athena" ELSE Undefined

\* The strings a field is given: plain text, one reference to a variable
\* that is set, one to a variable that is not, text with the same reference
\* twice.
StringValues ==
  {<<Lit("text")>>, <<Ref("ATHENA_HOME")>>, <<Ref("ATHENA_PORT")>>,
   <<Ref("ATHENA_HOME"), Lit("/"), Ref("ATHENA_HOME")>>}
FieldValues == {Absent, Num} \cup {Str(x) : x \in StringValues}

AllowedKeys ==
  {"enabled", "transport", "pythonPath", "athenaProjectDir", "sseUrl", "toolPrefix"}
StringFields == {"pythonPath", "athenaProjectDir", "sseUrl", "toolPrefix"}
\* A key the schema does not know.
UnknownKey == "apiKey"

\* The objects handed in as settings: a value, or none, under each key.
SettingsObjects ==
  [enabled : {Absent, Bool(TRUE), Bool(FALSE), Str(<<Lit("true")>>)},
   transport : {Absent, Num, Str(<<Lit("sse")>>), Str(<<Lit("stdio")>>)},
   pythonPath : FieldValues,
   athenaProjectDir : FieldValues,
   sseUrl : FieldValues,
   toolPrefix : FieldValues,
   apiKey : {Absent, Num}]
EmptyObject == [k \in AllowedKeys \cup {UnknownKey} |-> Absent]

\* What a caller can hand in: nothing, null, a string, an array, an object.
PluginConfigs ==
  {[kind |-> k, o |-> EmptyObject] : k \in {"undefined", "null", "string", "array"}}
  \cup {[kind |-> "object", o |-> x] : x \in SettingsObjects}

\* Object.keys(value)
Keys(value) == {k \in DOMAIN value.o : value.o[k] # Absent}

\* What parse hands back: a configuration, or the error it threw.
NoConfig ==
  [enabled |-> FALSE, transport |-> "-", pythonPath |-> <<>>,
   athenaProjectDir |-> <<>>, sseUrl |-> <<>>, toolPrefix |-> <<>>]
Thrown(e) == [ok |-> FALSE, err |-> e, cfg |-> NoConfig]
Parsed(c) == [ok |-> TRUE, err |-> "-", cfg |-> c]

\* A check of the keys that lets every key through.
assertAllowedKeysNever(value) == FALSE
\* assertAllowedKeys throws when a key of the object is not in the list.
assertAllowedKeys(value) == Keys(value) \ AllowedKeys # {}

\* resolveEnvVars: every ${name} is replaced by process.env[name]; a
\* variable that is not set, or is set to "", throws.
EnvMissing(parts) ==
  \E i \in DOMAIN parts :
    parts[i].ref /\ process_env(parts[i].name) \in {Undefined, ""}
resolveEnvVars(parts) ==
  [i \in DOMAIN parts |->
     IF parts[i].ref THEN Lit(process_env(parts[i].name)) ELSE parts[i]]

DEFAULT_TOOL_PREFIX == <<Lit("athena_")>>
DEFAULT_PYTHON_PATH == <<Lit("python3")>>
DEFAULT_SSE_URL == <<Lit("http://localhost:8765")>>
resolveDefaultAthenaProjectDir ==
  <<Lit("~/Desktop/openclaw_codebase/Athena-Public")>>

\* The three fields parse resolves, in the order it resolves them.
ResolvedFields == {"pythonPath", "athenaProjectDir", "sseUrl"}

\* A flag that is true for every value that is truthy.
parseEnabledTruthy(v) == v = Bool(TRUE) \/ v.t \in {"string", "number"}
\* const enabled = cfg.enabled === true;
parseEnabled(v) == v = Bool(TRUE)

\* A transport that is sse for every string.
parseTransportAnyString(v) == IF v.t = "string" THEN "sse" ELSE "stdio"
\* const transport = cfg.transport === "sse" ? "sse" : "stdio";
parseTransport(v) == IF v = Str(<<Lit("sse")>>) THEN "sse" ELSE "stdio"

\* athenaMemoryConfigSchema.parse(value)
parse(value) ==
  IF value.kind # "object" THEN Thrown("config required")
  ELSE IF assertAllowedKeys(value) THEN Thrown("unknown keys")
  ELSE IF \E f \in ResolvedFields :
            value.o[f].t = "string" /\ EnvMissing(value.o[f].s)
    THEN Thrown("variable not set")
  ELSE Parsed(
    [enabled |-> parseEnabled(value.o.enabled),
     transport |-> parseTransport(value.o.transport),
     pythonPath |-> IF value.o.pythonPath.t = "string"
                      THEN resolveEnvVars(value.o.pythonPath.s)
                      ELSE DEFAULT_PYTHON_PATH,
     athenaProjectDir |-> IF value.o.athenaProjectDir.t = "string"
                            THEN resolveEnvVars(value.o.athenaProjectDir.s)
                            ELSE resolveDefaultAthenaProjectDir,
     sseUrl |-> IF value.o.sseUrl.t = "string"
                  THEN resolveEnvVars(value.o.sseUrl.s)
                  ELSE DEFAULT_SSE_URL,
     toolPrefix |-> IF value.o.toolPrefix.t = "string"
                      THEN value.o.toolPrefix.s
                      ELSE DEFAULT_TOOL_PREFIX])

\* api.pluginConfig || {} : what is falsy is replaced by the empty object.
OrEmptyObject(value) ==
  IF value.kind \in {"undefined", "null"}
    THEN [kind |-> "object", o |-> EmptyObject] ELSE value

\* The tools register() registers, each under cfg.toolPrefix and this name.
ToolNames == <<"search", "save", "recall_session", "list_paths", "health">>
\* The events register() subscribes to.
HookNames == <<"before_agent_start", "agent_end">>

\* A run before anything was called: the settings are in hand.
NewRun(value) ==
  [stage |-> "new", settings |-> value, res |-> Thrown("-"), client |-> FALSE,
   tools |-> <<>>, subs |-> <<>>, service |-> FALSE]

InitConfig ==
  /\ client = 0
  /\ transport = 0
  /\ connected = FALSE
  /\ chan = [h \in Handles |-> "none"]
  /\ nextId = 0
  /\ running = "none"
  /\ turn = "idle"
  /\ hist = "fresh"
  /\ task = [t \in TaskIds |-> IdleTask]
  /\ ana = NoAnalysis
  /\ conv = NoConversion
  /\ reg \in {NewRun(value) : value \in PluginConfigs}

\* The host validates the settings with configSchema.parse.
schema_parse ==
  /\ reg.stage = "new"
  /\ reg' = [reg EXCEPT !.stage = "validated", !.res = parse(reg.settings)]
  /\ UNCHANGED <<bridge, ana, conv>>

\* register(): const cfg = athenaMemoryConfigSchema.parse(api.pluginConfig || {});
\* an exception of parse leaves register().
register_parse ==
  /\ reg.stage = "new"
  /\ LET res == parse(OrEmptyObject(reg.settings)) IN
     reg' = [reg EXCEPT !.stage = IF res.ok THEN "parsed" ELSE "thrown",
                        !.res = res]
  /\ UNCHANGED <<bridge, ana, conv>>

\* register(): new AthenaClient({...})
register_client ==
  /\ reg.stage = "parsed"
  /\ reg' = [reg EXCEPT !.stage = "tools", !.client = TRUE]
  /\ UNCHANGED <<bridge, ana, conv>>

\* register(): the next api.registerTool({name: `${cfg.toolPrefix}...`})
register_tool ==
  /\ reg.stage = "tools"
  /\ LET n == Len(reg.tools) + 1 IN
     reg' = [reg EXCEPT
               !.tools = Append(@, reg.res.cfg.toolPrefix \o <<Lit(ToolNames[n])>>),
               !.stage = IF n = Len(ToolNames) THEN "hooks" ELSE "tools"]
  /\ UNCHANGED <<bridge, ana, conv>>

\* register(): the next api.on(...)
register_on ==
  /\ reg.stage = "hooks"
  /\ LET n == Len(reg.subs) + 1 IN
     reg' = [reg EXCEPT
               !.subs = Append(@, HookNames[n]),
               !.stage = IF n = Len(HookNames) THEN "service" ELSE "hooks"]
  /\ UNCHANGED <<bridge, ana, conv>>

\* register(): api.registerService({...}), the last statement.
register_service ==
  /\ reg.stage = "service"
  /\ reg' = [reg EXCEPT !.stage = "registered", !.service = TRUE]
  /\ UNCHANGED <<bridge, ana, conv>>

NextConfig ==
  \/ schema_parse
  \/ register_parse
  \/ register_client
  \/ register_tool
  \/ register_on
  \/ register_service

SpecConfig == InitConfig /\ [][NextConfig]_vars

\* ============================================================ the analyzer
\* The texts of the histories the analyzer is run on: nothing that matches;
\* one match; the same pattern with another wording; one pattern twice in a
\* text; two patterns in a text in the reverse of the patterns' order; all
\* six patterns in one text.
AnalyzerTexts ==
  {<<>>,
   <<Tok("personal", "a")>>,
   <<Tok("personal", "b")>>,
   <<Tok("personal", "b"), Tok("personal", "a")>>,
   <<Tok("reminder", "a"), Tok("phone", "a")>>,
   <<Tok("decision", "a"), Tok("reminder", "b"), Tok("preference", "a"),
     Tok("personal", "a"), Tok("email", "a"), Tok("phone", "b")>>}

\* The contents: each text as a string; arrays with two text blocks, with a
\* null block, with a block that is no object, with an object that has no
\* text; a message without content.
AnalyzerContents ==
  {StringContent(x) : x \in AnalyzerTexts} \cup
  {ArrayContent(<<TextBlock(<<Tok("email", "b")>>), TextBlock(<<Tok("phone", "a")>>)>>),
   ArrayContent(<<TextBlock(<<Tok("personal", "a")>>), NullBlock>>),
   ArrayContent(<<NumberBlock, TextBlock(<<Tok("reminder", "a")>>)>>),
   ArrayContent(<<ImageBlock, TextBlock(<<Tok("decision", "b")>>)>>),
   NoContent}

\* Texts by their length: white space alone; 80 characters, 81 and 100 of
\* one wording; a short text between blanks; "My name is Sam" and "Remember
\* to call Sam".
SummaryTexts ==
  {<<Space(2)>>,
   <<Plain("x", 80)>>,
   <<Plain("x", 81)>>,
   <<Plain("x", 100)>>,
   <<Space(1), Plain("y", 5), Space(1)>>,
   MyNameIsSam,
   RememberToCallSam}

\* The entries: user messages with every content, messages of other roles
\* with text that matches and with a null block, entries that are no object.
AnalyzerMessages ==
  Messages \cup
  {Msg("user", c) : c \in AnalyzerContents} \cup
  {Msg("user", StringContent(x)) : x \in SummaryTexts} \cup
  {Msg("assistant", c) :
     c \in {StringContent(<<Tok("personal", "a"), Tok("email", "c")>>),
            ArrayContent(<<TextBlock(<<Tok("preference", "c")>>)>>)}} \cup
  {Msg("system", StringContent(<<Tok("decision", "c")>>))}

AnalyzerHistories == SeqsUpTo(AnalyzerMessages, MaxMsgs)

\* A run of the analyzer before it was called: the history is in hand.
NewAnalysis(ms) ==
  [stage |-> "new", messages |-> ms, facts |-> <<>>, out |-> <<>>]

\* firstUserMsg and lastUserMsg when the loop of generateSummary is over.
firstUserMsg(ms) ==
  IF SummaryParts(ms) = <<>> THEN <<>> ELSE SummaryParts(ms)[1]
lastUserMsg(ms) ==
  IF SummaryParts(ms) = <<>> THEN <<>> ELSE SummaryParts(ms)[Len(SummaryParts(ms))]

InitAnalyzer ==
  /\ client = 0
  /\ transport = 0
  /\ connected = FALSE
  /\ chan = [h \in Handles |-> "none"]
  /\ nextId = 0
  /\ running = "none"
  /\ turn = "idle"
  /\ hist = "fresh"
  /\ task = [t \in TaskIds |-> IdleTask]
  /\ reg = NoRegistration
  /\ conv = NoConversion
  /\ ana \in {NewAnalysis(ms) : ms \in AnalyzerHistories}

\* extractKeyFacts(messages) runs: it returns its list, facts being the
\* array it filled on the way, or it throws.
extract_key_facts ==
  /\ ana.stage = "new"
  /\ LET res == extractKeyFacts(ana.messages) IN
     ana' = [ana EXCEPT
               !.stage = IF res.ok THEN "returned" ELSE "thrown",
               !.facts = IF res.ok THEN pushed(ana.messages, 1) ELSE <<>>,
               !.out = res.facts]
  /\ UNCHANGED <<bridge, reg, conv>>

\* generateSummary(messages) runs: it returns its string, facts holding
\* firstUserMsg and lastUserMsg as the loop left them, or it throws.
generate_summary ==
  /\ ana.stage = "new"
  /\ LET res == generateSummary(ana.messages) IN
     ana' = [ana EXCEPT
               !.stage = IF res.ok THEN "summarized" ELSE "summary_thrown",
               !.facts = IF res.ok
                           THEN <<firstUserMsg(ana.messages), lastUserMsg(ana.messages)>>
                           ELSE <<>>,
               !.out = res.text]
  /\ UNCHANGED <<bridge, reg, conv>>

NextAnalyzer ==
  \/ extract_key_facts
  \/ generate_summary

SpecAnalyzer == InitAnalyzer /\ [][NextAnalyzer]_vars

\* ====================================================== content of a reply
\* A content block of the peer's reply, as the MCP client hands it over: a
\* type and what the block carries (the text of a text block, the data of
\* another).  A string is a sequence of the parts it is put together from.
McpBlock(type, body) == [type |-> type, body |-> body]
McpBlocks ==
  {McpBlock("text", "first"), McpBlock("text", "second"),
   McpBlock("image", "png"), McpBlock("resource", "uri")}

\* JSON.stringify(block)
JSONstringify(block) ==
  <<"{\"type\":\"", block.type, "\",\"data\":\"", block.body, "\"}">>

\* A conversion that leaves out what is no text block.
convertTextOnly(content) ==
  LET texts == SelectSeq(content, LAMBDA block : block.type = "text")
  IN  [i \in DOMAIN texts |-> [type |-> "text", text |-> <<texts[i].body>>]]
\* result.content.map((block) => block.type === "text"
\*   ? {type: "text", text: block.text}
\*   : {type: "text", text: JSON.stringify(block)})
convertContent(content) ==
  [i \in DOMAIN content |->
     IF content[i].type = "text"
       THEN [type |-> "text", text |-> <<content[i].body>>]
       ELSE [type |-> "text", text |-> JSONstringify(content[i])]]

\* isError of a reply: true, false, or not there.
ErrorFlags == {"true", "false", "undefined"}

\* What the awaited client.callTool ends with: a reply, or a thrown fault.
AwaitedResults ==
  {[thrown |-> FALSE, content |-> c, isError |-> e] :
     c \in SeqsUpTo(McpBlocks, MaxReplyBlocks), e \in ErrorFlags}
  \cup {[thrown |-> TRUE, content |-> <<>>, isError |-> "undefined"]}

\* callTool after its await: {content, isError: result.isError}, or the
\* result the catch block builds.
AthenaToolResult(awaited) ==
  IF awaited.thrown
    THEN [content |-> <<[type |-> "text", text |-> <<"Error: ", "fault">>]>>,
          isError |-> "true"]
    ELSE [content |-> convertContent(awaited.content), isError |-> awaited.isError]

\* result.content.map((c) => c.text).join("\n")
RECURSIVE join(_, _)
join(texts, sep) ==
  IF texts = <<>> THEN <<>>
  ELSE IF Len(texts) = 1 THEN texts[1]
  ELSE texts[1] \o sep \o join(Tail(texts), sep)

\* What execute() returns for a result of callTool.
ExecuteReturn(result) ==
  [content |-> result.content,
   isError |-> result.isError,
   details |-> join([i \in DOMAIN result.content |-> result.content[i].text],
                    <<"\n">>)]

NoResult == [content |-> <<>>, isError |-> "undefined"]
NewConversion(awaited) ==
  [stage |-> "new", awaited |-> awaited, result |-> NoResult,
   ret |-> ExecuteReturn(NoResult)]

InitContent ==
  /\ client = 0
  /\ transport = 0
  /\ connected = FALSE
  /\ chan = [h \in Handles |-> "none"]
  /\ nextId = 0
  /\ running = "none"
  /\ turn = "idle"
  /\ hist = "fresh"
  /\ task = [t \in TaskIds |-> IdleTask]
  /\ reg = NoRegistration
  /\ ana = NoAnalysis
  /\ conv \in {NewConversion(a) : a \in AwaitedResults}

\* callTool returns to the tool action that called it.
callTool_return ==
  /\ conv.stage = "new"
  /\ conv' = [conv EXCEPT !.stage = "result", !.result = AthenaToolResult(conv.awaited)]
  /\ UNCHANGED <<bridge, reg, ana>>

\* execute() returns {content, isError, details} to the host.
execute_return ==
  /\ conv.stage = "result"
  /\ conv' = [conv EXCEPT !.stage = "returned", !.ret = ExecuteReturn(conv.result)]
  /\ UNCHANGED <<bridge, reg, ana>>

NextContent ==
  \/ callTool_return
  \/ execute_return

SpecContent == InitContent /\ [][NextContent]_vars

\* ================================================================ claims
\* A step in which caller t leaves method position a for position b.
Moves(t, a, b) == task[t].m = a /\ task'[t].m = b

\* C1: in every reachable state the session has at most one live (opened
\* and not yet closed) channel handle.
C1_AtMostOneLiveHandle == Cardinality(LiveHandles) <= 1

\* C2: a call goes out on the channel only when the session is connected
\* with an open channel, one whose handshake is done and that is not closed.
C2_DispatchOnlyWhenConnected ==
  [][\A t \in TaskIds :
       Moves(t, "callTool", "callWait") =>
         (connected /\ client # 0 /\ chan[client] = "ready")]_vars

\* C3: callTool() on a session that is not connected ends with the
\* not-connected error, makes no connect attempt, sends nothing to the peer
\* and leaves the session as it was.
C3_CallToolNotConnected ==
  [][\A t \in TaskIds :
       (task[t].m = "callTool" /\ (client = 0 \/ ~connected)) =>
         (/\ task'[t].m = "ret"
          /\ task'[t].r = Outcome("notConn")
          /\ UNCHANGED session)]_vars

\* The guard has turned a call down on a session that holds a Client from a
\* connect that failed or was torn down.
C3_Witness ==
  \E t \in TaskIds :
    task[t].m = "ret" /\ task[t].r.k = "notConn" /\ client # 0 /\ ~connected

\* C4: when connect() fails, the call raises, isConnected() is false and the
\* session holds neither a client nor a transport handle.
C4_FailedConnectHoldsNothing ==
  [][\A t \in TaskIds :
       (Moves(t, "connWait", "ret") /\ task'[t].r.k = "connErr") =>
         (~connected' /\ client' = 0 /\ transport' = 0)]_vars

\* C5: disconnect() never raises, whatever the state and whether or not the
\* close fails, and leaves the session disconnected with its handles released.
C5_DisconnectNeverRaises ==
  [][\A t \in TaskIds :
       ((task[t].m \in {"disc", "discWait"}) /\ task'[t].m = "ret") =>
         (/\ task'[t].r.k # "closeErr"
          /\ ~connected'
          /\ client' = 0 /\ transport' = 0)]_vars

\* C6: a disconnect() on a session connect() was never called on, and the
\* second of two disconnect() calls in succession, do not raise, leave
\* isConnected() false and change no state.
C6_SecondDisconnectIsNoop ==
  [][\A t \in TaskIds :
       (task[t].m = "disc" /\ hist \in {"fresh", "disc"}) =>
         (/\ task'[t].m = "ret"
          /\ task'[t].r.k # "closeErr"
          /\ ~connected'
          /\ UNCHANGED session)]_vars

\* C7: connect() on a connected session returns successfully at once, opens
\* no channel, starts no handshake and leaves handle and flag as they were.
C7_ConnectWhenConnectedIsNoop ==
  [][\A t \in TaskIds :
       (task[t].m = "connect" /\ connected) =>
         (/\ task'[t].m = "ret"
          /\ task'[t].r.k # "connErr"
          /\ UNCHANGED session)]_vars

\* connect() has returned from its first test on a connected session.
C7_Witness ==
  \E t \in TaskIds :
    task[t].m = "ret" /\ task[t].r.k = "noop" /\ connected /\ client # 0

\* C8: a callTool() that went out never raises; a fault thrown while the
\* call is awaited comes back as a result with the error flag set and
\* exactly one text block.
C8_FaultsBecomeResults ==
  [][\A t \in TaskIds :
       Moves(t, "callWait", "ret") =>
         (/\ task'[t].r.k = "result"
          /\ (task'[t].r.src = "fault" =>
                (task'[t].r.err /\ task'[t].r.n = 1)))]_vars

\* A caller holds the result callTool built from a fault it caught.
C8_Witness ==
  \E t \in TaskIds :
    /\ task[t].m = "ret"
    /\ task[t].r.k = "result" /\ task[t].r.src = "fault"
    /\ task[t].r.err /\ task[t].r.n = 1

\* C9: a tool action never ends in an exception handed to the host.
C9_ToolActionNeverRaises ==
  \A t \in ToolTasks : task[t].out # "raised"

\* The ways recall can fail: connect or callTool threw, the result carries
\* the error flag or no content, or its text cannot be parsed or traversed.
RecallFailed(res) ==
  \/ res.k \in {"connErr", "notConn"}
  \/ res.k = "result" /\ (res.err \/ res.n = 0 \/ res.pay \in {"nonjson", "malformed"})

\* C10: the turn-start handler always completes without raising, and after
\* any failure of connect, of the search call or of parsing its result it
\* returns no prepend-context instruction.
C10_TurnStartNeverFails ==
  (task[Hook].pc = "done" /\ task[Hook].ev = "start") =>
    (/\ task[Hook].out \in {"nothing", "prepend"}
     /\ (RecallFailed(task[Hook].r) => task[Hook].out = "nothing"))

\* The handler has ended with no instruction after a search whose result
\* carried the error flag over a payload that would otherwise be injected.
C10_Witness ==
  /\ task[Hook].pc = "done" /\ task[Hook].ev = "start"
  /\ task[Hook].r.k = "result" /\ task[Hook].r.err
  /\ task[Hook].r.pay = "json" /\ Len(meaningfulResults(task[Hook].r.cand)) > 0
  /\ task[Hook].out = "nothing"

\* The turn-start, or the turn-end, handler has come to its end.
StartDone == task[Hook].pc = "done" /\ task[Hook].ev = "start"
EndDone == task[Hook].pc = "done" /\ task[Hook].ev = "end"
\* The turn-end handler is in its first segment, the event before it.
EndBegun == task[Hook].pc = "te_begin"

\* C11: the turn-end handler never raises to the host: after a failing
\* save, an exception of the analyzer, a session that is not connected or a
\* failing disconnect it completes normally.
C11_TurnEndNeverRaises ==
  task[Hook].ev = "end" =>
    (/\ task[Hook].out # "raised"
     /\ (task[Hook].pc = "done" => task[Hook].out = "completed"))

\* The handler has completed although the disconnect() of its catch block,
\* the second it called, threw.
C11_Witness ==
  /\ EndDone /\ task[Hook].out = "completed"
  /\ task[Hook].discs = 2 /\ task[Hook].r.k = "closeErr"

\* C12: hasEnoughExchanges is true exactly when the history has 2 or more
\* messages with role user; on a turn-end with fewer the handler takes an
\* early return, on which it calls no quicksave, sends nothing to the peer
\* and calls disconnect().
C12_FewUserMessagesNoSave ==
  /\ EndBegun =>
       /\ (task[Hook].evt.enough <=> task[Hook].evt.users >= 2)
       /\ (task[Hook].evt.users < 2 => task[Hook].arg \in {"failed", "few"})
  /\ (EndDone /\ task[Hook].arg \in {"failed", "few"}) =>
       (task[Hook].calls = 0 /\ task[Hook].sent = 0 /\ task[Hook].discs >= 1)

\* A successful turn with fewer than 2 user messages has ended with a
\* disconnect() that closed the channel, and no call.
C12_Witness ==
  /\ EndDone /\ task[Hook].arg = "few"
  /\ task[Hook].calls = 0 /\ task[Hook].discs = 1 /\ task[Hook].r.k = "closed"

\* C13: on a turn-end for a turn that did not succeed, or with a message
\* list that is absent or empty, the handler takes the first early return,
\* on which it calls no quicksave, sends nothing and calls disconnect().
C13_UnsuccessfulNoSave ==
  /\ (EndBegun /\ (~task[Hook].evt.success \/ task[Hook].evt.nomsgs)) =>
       task[Hook].arg = "failed"
  /\ (EndDone /\ task[Hook].arg = "failed") =>
       (task[Hook].calls = 0 /\ task[Hook].sent = 0 /\ task[Hook].discs >= 1)

\* A turn that failed, or left no messages, has ended with a disconnect()
\* that closed the channel, and no call.
C13_Witness ==
  /\ EndDone /\ task[Hook].arg = "failed"
  /\ task[Hook].calls = 0 /\ task[Hook].discs = 1 /\ task[Hook].r.k = "closed"

\* C14: on every turn-end for a successful turn with at least 2 user
\* messages the handler calls quicksave exactly once, with the summary the
\* analyzer computed and with the key facts as bullets, null when there are
\* none.
C14_SaveExactlyOnce ==
  /\ (EndBegun /\ task[Hook].arg = "enough") =>
       /\ task[Hook].evt.summary = "generateSummary"
       /\ task[Hook].evt.bullets =
            (IF task[Hook].evt.facts > 0 THEN "facts" ELSE "null")
  /\ (EndDone /\ task[Hook].due) => task[Hook].calls = 1

\* C15: when the turn-end handler has completed, isConnected() is false.
C15_DisconnectedAfterTurnEnd == EndDone => ~isConnected

\* C16: when a turn-end handler has completed, no channel opened before it
\* began is still open.
C16_NoChannelOutlivesTurnEnd ==
  EndDone => \A h \in Handles : (h <= task[Hook].base => chan[h] \notin Live)

\* C17: whenever no turn is in progress and no handler is running, the
\* session is not connected over a live channel.
C17_NoConnectionOutsideTurn ==
  (turn = "idle" /\ task[Hook].pc = "idle") =>
    ~(isConnected /\ client # 0 /\ chan[client] \in Live)

\* C18: on a turn-start with no prompt or a prompt of at most 10 characters
\* no search is called or sent and no instruction is returned; with 11 or
\* more characters and a connect that succeeded smart_search is called
\* once, and sent once unless the session was no longer connected.
C18_ShortPromptNoSearch ==
  StartDone =>
    /\ (task[Hook].len <= 10) =>
         (task[Hook].calls = 0 /\ task[Hook].sent = 0 /\ task[Hook].out = "nothing")
    /\ (task[Hook].len >= 11 /\ task[Hook].r.k # "connErr") =>
         /\ task[Hook].calls = 1
         /\ task[Hook].sent = (IF task[Hook].r.k = "notConn" THEN 0 ELSE 1)

\* A prompt of exactly 10 characters on a session whose connect succeeded
\* has ended without a search.
C18_Witness ==
  /\ StartDone /\ task[Hook].len = 10
  /\ task[Hook].r.k \in {"noop", "connected"}
  /\ task[Hook].calls = 0 /\ task[Hook].out = "nothing"

\* C19: on a turn-start with no prompt or a prompt of at most 10 characters
\* the handler calls no connect() and opens no channel.
C19_ShortPromptNoConnect ==
  (StartDone /\ task[Hook].len <= 10) =>
    (task[Hook].conns = 0 /\ task[Hook].opened = 0)

\* C20: after a search result without the error flag whose candidates all
\* score 0.01 or less, or that has no candidates, turn-start returns no
\* prepend-context instruction.
C20_LowScoresNoPrepend ==
  (/\ StartDone
   /\ task[Hook].r.k = "result" /\ ~task[Hook].r.err /\ task[Hook].r.pay = "json"
   /\ \A i \in DOMAIN task[Hook].r.cand : task[Hook].r.cand[i] <= 10) =>
    task[Hook].out = "nothing"

\* The search came back with one candidate of score exactly 0.01 and the
\* handler returned nothing.
C20_Witness ==
  /\ StartDone
  /\ task[Hook].r.k = "result" /\ ~task[Hook].r.err /\ task[Hook].r.n > 0
  /\ task[Hook].r.pay = "json" /\ task[Hook].r.cand = <<10>>
  /\ task[Hook].out = "nothing"

\* The search of a turn-start came back as a result without the error flag
\* whose first block holds JSON with a list of candidates.
SearchParsed ==
  /\ StartDone
  /\ task[Hook].r.k = "result" /\ ~task[Hook].r.err /\ task[Hook].r.n > 0
  /\ task[Hook].r.pay = "json"

\* C21: the prepend-context lists exactly the candidates that survive the
\* filter: no candidate of score 0.01 or less has a line, and every
\* candidate above 0.01 has exactly one line, in the server's order.
C21_OnlySurvivorsInjected ==
  (SearchParsed /\ task[Hook].out = "prepend") =>
    LET cand == task[Hook].r.cand
        inj  == task[Hook].inj
    IN  /\ \A i \in DOMAIN inj : cand[inj[i].at] > 10
        /\ \A c \in DOMAIN cand :
             cand[c] > 10 => Cardinality({i \in DOMAIN inj : inj[i].at = c}) = 1
        /\ \A i, j \in DOMAIN inj : i < j => inj[i].at < inj[j].at

\* C22: for a prompt of more than 10 characters and a search that returns a
\* single candidate of score s above 0.01, turn-start returns an instruction
\* with exactly one result line, which carries s as a percentage with one
\* decimal: 0.25 as 25.0 and 0.5 as 50.0.
C22_OneLineWithPercent ==
  (/\ SearchParsed /\ task[Hook].len > 10
   /\ Len(task[Hook].r.cand) = 1 /\ task[Hook].r.cand[1] > 10) =>
    LET sc  == task[Hook].r.cand[1]
        inj == task[Hook].inj
    IN  /\ task[Hook].out = "prepend"
        /\ Len(inj) = 1
        /\ inj[1].at = 1
        /\ inj[1].pct.tenth \in 0..9
        /\ 10 * inj[1].pct.whole + inj[1].pct.tenth = sc
        /\ (sc = 250 => inj[1].pct = [whole |-> 25, tenth |-> 0])
        /\ (sc = 500 => inj[1].pct = [whole |-> 50, tenth |-> 0])

\* A single candidate of score 0.25 has been injected as one line of 25.0%.
C22_Witness ==
  /\ SearchParsed /\ task[Hook].len > 10
  /\ task[Hook].r.cand = <<250>>
  /\ task[Hook].out = "prepend"
  /\ task[Hook].inj = <<[at |-> 1, pct |-> [whole |-> 25, tenth |-> 0]]>>

\* C23: each turn-start and each turn-end handler calls connect() exactly
\* once for its event, with no retry.
C23_OneConnectPerEvent ==
  (StartDone \/ EndDone) => task[Hook].conns = 1

\* C24: when the turn-start handler returns after a connect() that
\* succeeded, the session is connected over the channel it holds, whose
\* handshake is done and which is not closed: the state the session is to
\* keep through the tool actions of the turn until turn-end disconnects.
C24_ConnectedFromTurnStart ==
  (StartDone /\ task[Hook].r.k # "connErr") =>
    (isConnected /\ client # 0 /\ chan[client] = "ready")

\* ------------------------------------------- claims on the configuration
\* parse has run on the settings as they were handed in.
Validated == reg.stage = "validated"
\* The settings are an object that holds a key the schema does not know.
HasUnknownKey(value) == value.kind = "object" /\ value.o[UnknownKey] # Absent
\* A string given for field f holds a ${name} whose variable is not set.
RefersToUnset(value, f) ==
  /\ value.kind = "object" /\ value.o[f].t = "string"
  /\ \E i \in DOMAIN value.o[f].s :
       value.o[f].s[i].ref /\ process_env(value.o[f].s[i].name) = Undefined

\* C25: parse rejects every settings object that holds a key outside the
\* six known ones: it throws the unknown-keys error and hands back no
\* configuration, whatever the values under the known keys; register(),
\* which calls parse first, ends there.
C25_UnknownKeyRejected ==
  (reg.stage \notin {"none", "new"} /\ HasUnknownKey(reg.settings)) =>
    /\ ~reg.res.ok
    /\ reg.res.err = "unknown keys"
    /\ reg.res.cfg = NoConfig
    /\ reg.stage \in {"validated", "thrown"}

\* Settings whose known keys all hold values parse accepts, and one unknown
\* key, have been rejected for the unknown key.
C25_Witness ==
  /\ Validated /\ HasUnknownKey(reg.settings)
  /\ reg.settings.o.enabled = Bool(TRUE)
  /\ reg.settings.o.transport = Str(<<Lit("sse")>>)
  /\ \A f \in StringFields : reg.settings.o[f] = Str(<<Ref("ATHENA_HOME")>>)
  /\ ~reg.res.ok /\ reg.res.err = "unknown keys"

\* Settings that are there but are no object, an unknown key, or a string
\* field that names a variable that is not set.
ConfigFault(value) ==
  \/ value.kind \in {"string", "array"}
  \/ HasUnknownKey(value)
  \/ \E f \in StringFields : RefersToUnset(value, f)

\* C26: register() creates a client, registers a tool or subscribes to an
\* event only for settings without a configuration fault: a fault ends
\* register() before any of them.
C26_FaultAbortsRegistration ==
  (reg.stage # "none" /\ (reg.client \/ reg.tools # <<>> \/ reg.subs # <<>>)) =>
    ~ConfigFault(reg.settings)

\* C27: when a string given for pythonPath, athenaProjectDir, sseUrl or
\* toolPrefix holds ${NAME} and NAME is not set, parse throws and hands back
\* no configuration.
C27_UnsetVariableRejected ==
  (Validated /\ \E f \in StringFields : RefersToUnset(reg.settings, f)) =>
    (~reg.res.ok /\ reg.res.cfg = NoConfig)

\* C28: in the configuration parse hands back, each of pythonPath,
\* athenaProjectDir, sseUrl and toolPrefix that was given as a string is
\* that string with every ${NAME} replaced by the value of NAME.
C28_EveryStringFieldInterpolated ==
  (Validated /\ reg.res.ok) =>
    \A f \in StringFields :
      reg.settings.o[f].t = "string" =>
        LET given == reg.settings.o[f].s
            got   == reg.res.cfg[f]
        IN  /\ Len(got) = Len(given)
            /\ \A i \in DOMAIN given :
                 got[i] = IF given[i].ref
                            THEN Lit(process_env(given[i].name)) ELSE given[i]

\* ------------------------------------------------ claims on the analyzer
\* extractKeyFacts has returned its list.
FactsReturned == ana.stage = "returned"

\* The places a substring x is matched at in a history: 10 * the position of
\* a user message + the position of a pattern whose first match in the text
\* of that message is x.
ProducedAt(ms, x) ==
  {10 * m + c : m \in {i \in DOMAIN ms :
                         /\ ms[i].role = "user"
                         /\ \E k \in DOMAIN TextOf(ms[i].content) :
                              /\ TextOf(ms[i].content)[k] = x
                              /\ \A l \in 1..(k - 1) :
                                   TextOf(ms[i].content)[l].cat # x.cat},
                c \in {j \in DOMAIN importantPatterns :
                         importantPatterns[j] = x.cat}}
\* The first of them: messages in order, patterns in order within a message.
FirstAt(ms, x) ==
  CHOOSE p \in ProducedAt(ms, x) : \A q \in ProducedAt(ms, x) : p <= q
\* Every substring matched anywhere in the user messages of a history.
Produced(ms) ==
  {x \in UNION {{TextOf(ms[m].content)[k] : k \in 1..Len(TextOf(ms[m].content))} :
                  m \in DOMAIN ms} :
     ProducedAt(ms, x) # {}}

\* C29: the list extractKeyFacts returns has at most 5 entries, no two of
\* them equal, each a substring matched in a user message, in the order in
\* which each was first produced (messages in order, patterns in their
\* order within a message); what is left out was first produced later than
\* five others.
C29_AtMostFiveDistinctInOrder ==
  FactsReturned =>
    LET ms  == ana.messages
        out == ana.out
    IN  /\ Len(out) <= 5
        /\ \A i, j \in DOMAIN out : i # j => out[i] # out[j]
        /\ \A i \in DOMAIN out : out[i] \in Produced(ms)
        /\ \A i, j \in DOMAIN out : i < j => FirstAt(ms, out[i]) < FirstAt(ms, out[j])
        /\ \A x \in Produced(ms) :
             (\A i \in DOMAIN out : out[i] # x) =>
               /\ Len(out) = 5
               /\ \A i \in DOMAIN out : FirstAt(ms, out[i]) < FirstAt(ms, x)

\* Two user messages produced the same substring and more than five
\* distinct ones between them; five came back, the repeated one once.
C29_Witness ==
  /\ FactsReturned
  /\ Len(ana.messages) = 2
  /\ Len(ana.facts) > Cardinality(Produced(ana.messages))
  /\ Cardinality(Produced(ana.messages)) > 5
  /\ Len(ana.out) = 5

\* C30: every entry extractKeyFacts puts into facts comes from a message
\* with role user, no message contributes two entries for one pattern, and
\* the result is the one the user messages alone give: entries that are no
\* object and messages of other roles change nothing.
C30_OnlyUserMessages ==
  (ana.stage \in {"returned", "thrown"}) =>
    LET ms    == ana.messages
        users == SelectSeq(ms, LAMBDA msg : msg.role = "user")
    IN  /\ \A i \in DOMAIN ana.facts : ms[ana.facts[i].msg].role = "user"
        /\ \A i, j \in DOMAIN ana.facts :
             (i # j /\ ana.facts[i].msg = ana.facts[j].msg) =>
               ana.facts[i].cat # ana.facts[j].cat
        /\ [ok |-> ana.stage = "returned", facts |-> ana.out] = extractKeyFacts(users)

\* An assistant message whose text matches two patterns stood before a user
\* message with two matches of one pattern; only the user's first match came
\* back.
C30_Witness ==
  /\ FactsReturned
  /\ Len(ana.messages) = 2
  /\ ana.messages[1].role = "assistant"
  /\ TextOf(ana.messages[1].content) # <<>>
  /\ ana.messages[2] =
       Msg("user", StringContent(<<Tok("personal", "b"), Tok("personal", "a")>>))
  /\ ana.out = <<Tok("personal", "b")>>

\* generateSummary has returned its string.
Summarized == ana.stage = "summarized"

\* The number of characters of a text.
RECURSIVE TextLen(_)
TextLen(text) ==
  IF text = <<>> THEN 0 ELSE Head(text).len + TextLen(Tail(text))

\* The user messages of a history whose text is more than white space, by
\* their positions, and that text without the white space around it.
WithText(ms) ==
  {i \in DOMAIN ms : ms[i].role = "user" /\ SummaryTextOf(ms[i].content) # <<>>}
Lowest(S) == CHOOSE i \in S : \A j \in S : i <= j
Highest(S) == CHOOSE i \in S : \A j \in S : i >= j

\* C31: generateSummary takes at most the first 80 characters of the first
\* user message with text and at most the first 80 of the last; it returns
\* the one part when the two are equal, the first, the arrow and the last
\* otherwise, and the fallback string when no user message has text.
C31_SummaryOfFirstAndLast ==
  Summarized =>
    LET ms    == ana.messages
        first == ana.facts[1]
        last  == ana.facts[2]
    IN  IF WithText(ms) = {}
          THEN ana.out = FallbackSummary
          ELSE LET a == SummaryTextOf(ms[Lowest(WithText(ms))].content)
                   z == SummaryTextOf(ms[Highest(WithText(ms))].content)
               IN  /\ TextLen(first) = (IF TextLen(a) < 80 THEN TextLen(a) ELSE 80)
                   /\ TextLen(last) = (IF TextLen(z) < 80 THEN TextLen(z) ELSE 80)
                   /\ first = sliceText(a, TextLen(first))
                   /\ last = sliceText(z, TextLen(last))
                   /\ (first = last => ana.out = first)
                   /\ (first # last => ana.out = first \o Arrow \o last)

\* Two user messages of 81 and of 100 characters that begin alike gave one
\* part of 80 characters, returned alone.
C31_Witness ==
  /\ Summarized
  /\ Len(ana.messages) = 2
  /\ ana.messages[1] = Msg("user", StringContent(<<Plain("x", 81)>>))
  /\ ana.messages[2] = Msg("user", StringContent(<<Plain("x", 100)>>))
  /\ ana.out = <<Plain("x", 80)>>

\* C32: generateSummary never raises, whatever the history holds: it hands
\* back a string for every input.
C32_SummaryNeverRaises == ana.stage # "summary_thrown"

\* ------------------------------------------------ the example of a capture
\* A successful turn with the two user messages "My name is Sam" and
\* "Remember to call Sam".
ExampleEvent ==
  [success |-> TRUE, present |-> TRUE,
   messages |-> <<Msg("user", StringContent(MyNameIsSam)),
                  Msg("user", StringContent(RememberToCallSam))>>]

\* C33: on the turn-end of a successful turn with the user messages "My
\* name is Sam" and "Remember to call Sam" the handler goes on to call
\* quicksave; the bullets of the call hold a match of the personal-info
\* pattern and a match of the reminder pattern, and its summary is the first
\* message, the arrow and the last message.  A handler that took the way of
\* the save has called quicksave once when it ends.
C33_ExampleCapture ==
  /\ (EndBegun /\ task[Hook].evt = Observed(ExampleEvent)) =>
       LET args == task[Hook].evt.args IN
       /\ task[Hook].arg = "enough"
       /\ EndStep(task[Hook].arg) = <<"te_save", "callTool">>
       /\ args.summary = MyNameIsSam \o Arrow \o RememberToCallSam
       /\ ~args.null
       /\ \E i \in DOMAIN args.bullets : args.bullets[i].cat = "personal"
       /\ \E i \in DOMAIN args.bullets : args.bullets[i].cat = "reminder"
  /\ (EndDone /\ task[Hook].arg = "enough") => task[Hook].calls = 1

\* The handler holds the event of the example, with the two matches "My
\* name" and "Remember " as the bullets of the call it is about to make.
C33_Witness ==
  /\ EndBegun /\ task[Hook].evt = Observed(ExampleEvent)
  /\ task[Hook].arg = "enough"
  /\ task[Hook].evt.args.bullets =
       <<Piece("personal", "My name", 7, 0), Piece("reminder", "Remember ", 9, 1)>>

\* ------------------------------------------- transport and enabled
\* The settings hold what makes parse throw whatever the transport and the
\* flag are: they are no object, hold an unknown key, or name a variable
\* that is not set in one of the three fields parse resolves.
Rejected(value) ==
  \/ value.kind # "object"
  \/ HasUnknownKey(value)
  \/ \E f \in ResolvedFields : RefersToUnset(value, f)

\* C36: the parsed transport is sse or stdio: sse exactly when the value
\* given is the string "sse", stdio for every other value (none, another
\* string, no string), and no value of transport makes parse throw.
C36_TransportSseOrStdio ==
  Validated =>
    /\ reg.res.ok =>
         /\ reg.res.cfg.transport \in {"sse", "stdio"}
         /\ (reg.res.cfg.transport = "sse") <=>
              (reg.settings.o.transport.t = "string" /\
               reg.settings.o.transport.s = <<Lit("sse")>>)
    /\ ~reg.res.ok => Rejected(reg.settings)

\* A number given as transport was parsed to stdio.
C36_Witness ==
  /\ Validated /\ reg.res.ok
  /\ reg.settings.o.transport = Num
  /\ reg.res.cfg.transport = "stdio"

Converted == conv.stage \in {"result", "returned"} /\ ~conv.awaited.thrown

\* C34: the content callTool returns has as many blocks as the peer's
\* reply, in the same order: for a text block a text block with its text,
\* for every other block a text block that holds the block serialised.
C34_NoBlockLost ==
  Converted =>
    LET given == conv.awaited.content
        got   == conv.result.content
    IN  /\ Len(got) = Len(given)
        /\ \A i \in DOMAIN given :
             /\ got[i].type = "text"
             /\ (given[i].type = "text" => got[i].text = <<given[i].body>>)
             /\ (given[i].type # "text" =>
                   got[i].text =
                     <<"{\"type\":\"", given[i].type, "\",\"data\":\"",
                       given[i].body, "\"}">>)

\* A reply of an image, a text and a resource came back as three text
\* blocks, the text in the middle.
C34_Witness ==
  /\ Converted
  /\ conv.awaited.content =
       <<McpBlock("image", "png"), McpBlock("text", "first"),
         McpBlock("resource", "uri")>>
  /\ Len(conv.result.content) = 3
  /\ conv.result.content[2] = [type |-> "text", text |-> <<"first">>]

\* C35: every invocation of a tool action calls its remote tool exactly
\* once, has the request sent, and returns a result to the host: the
\* content, the error flag and the flattened text.
C35_OneCallPerInvocation ==
  \A t \in ToolTasks :
    task[t].pc = "done" =>
      (task[t].calls = 1 /\ task[t].sent = 1 /\ task[t].out \in {"ok", "error"})

====
